---- MODULE Spec2Model ----
(***************************************************************************)
(* State-machine model of src/server.py: DatabaseConnector (one psycopg2   *)
(* connection handle, connect / disconnect / is_connected and the four     *)
(* read operations) and DatabaseAnalyzer.run() (the server's lifetime).    *)
(*                                                                         *)
(* Text is modelled as a sequence of character codes, a message built by   *)
(* an f-string as the sequence of its fragments, Python's None for a text  *)
(* argument as the distinguished string None.                              *)
(***************************************************************************)
EXTENDS Integers, Sequences, FiniteSets, TLC

\* ------------------------------------------------------------------ bounds

\* Handles psycopg2.connect() can hand out during one behaviour.
MaxHandles == 2
\* Rows a statement returns.
MaxRows == 2

Handles == 1..MaxHandles

\* ------------------------------------------------------------------- text

None == "<None>"

RECURSIVE LStrip(_)
RECURSIVE RStrip(_)

\* str.isspace() of one character (code points below U+0250).
IsSpace(c) == c \in {9, 10, 11, 12, 13, 28, 29, 30, 31, 32, 133, 160}

LStrip(s) == IF s # << >> /\ IsSpace(Head(s)) THEN LStrip(Tail(s)) ELSE s

RStrip(s) ==
    IF s # << >> /\ IsSpace(s[Len(s)]) THEN RStrip(SubSeq(s, 1, Len(s) - 1)) ELSE s

\* str.strip(): leading and trailing whitespace removed.
Strip(s) == RStrip(LStrip(s))

\* str.lower(), ASCII letters.
LowerChar(c) == IF c \in 65..90 THEN c + 32 ELSE c

Lower(s) == [i \in 1..Len(s) |-> LowerChar(s[i])]

\* str.startswith(prefix).
StartsWith(s, prefix) ==
    Len(s) >= Len(prefix) /\ SubSeq(s, 1, Len(prefix)) = prefix

\* "select"
SelectWord == <<115, 101, 108, 101, 99, 116>>

\* Faulty variant: the guard tests the word anywhere in the text, not at its start.
SelectGuard_Contains(query) ==
    LET t == Lower(Strip(query))
    IN  \E i \in 1..Len(t) : StartsWith(SubSeq(t, i, Len(t)), SelectWord)

\* query.strip().lower().startswith("select")
SelectGuard(query) == StartsWith(Lower(Strip(query)), SelectWord)

\* Caller-supplied query texts.
Q_Select1      == <<83, 69, 76, 69, 67, 84, 32, 49>>                    \* "SELECT 1"
Q_SelectFromT  == <<115, 101, 108, 101, 99, 116, 32, 42, 32, 102, 114,
                    111, 109, 32, 116>>                                 \* "select * from t"
Q_PaddedSelect == <<32, 32, 83, 101, 108, 101, 99, 116, 32, 49>>        \* "  Select 1"
Q_TabSelect    == <<9, 115, 101, 108, 101, 99, 116, 32, 49, 10>>        \* "\tselect 1\n"
Q_Selectx      == <<115, 101, 108, 101, 99, 116, 120>>                  \* "selectx"
Q_SelectDup    == <<115, 101, 108, 101, 99, 116, 32, 49, 32, 97, 115, 32, 120, 44, 32, 50, 32, 97, 115, 32, 120>>
                                                \* "select 1 as x, 2 as x"
Q_SelectInto   == <<115, 101, 108, 101, 99, 116, 32, 49, 32, 105, 110, 116, 111, 32, 117>>
                                                \* "select 1 into u"
Q_Delete       == <<68, 69, 76, 69, 84, 69, 32, 70, 82, 79, 77, 32,
                    120>>                                               \* "DELETE FROM x"
Q_Drop         == <<32, 32, 68, 114, 111, 112, 32, 116, 97, 98, 108,
                    101, 32, 120>>                                      \* "  Drop table x"
Q_Empty        == << >>                                                 \* ""
Q_Selec        == <<115, 101, 108, 101, 99>>                            \* "selec"
Q_XSelect      == <<120, 32, 115, 101, 108, 101, 99, 116, 32, 49>>      \* "x select 1"

Queries ==
    {Q_Select1, Q_SelectFromT, Q_PaddedSelect, Q_TabSelect, Q_Selectx,
     Q_SelectDup, Q_SelectInto, Q_Delete, Q_Drop, Q_Empty, Q_Selec, Q_XSelect}

\* params: None or a list.
ParamChoices == {[isNone |-> TRUE, list |-> << >>], [isNone |-> FALSE, list |-> <<1>>]}

\* Python truthiness of an optional list / optional text.
TruthyList(p) == ~p.isNone /\ p.list # << >>

TruthyText(t) == t # None /\ t # ""

SchemaNames == {"public", "sales"}

TableNames == {"t", "orders"}

OptTableNames == {"t", None, ""}

\* ----------------------------------------------------------------- driver

VARIABLES
    conn,       \* DatabaseConnector.conn: 0 for None, else the handle
    status,     \* per handle: "unopened", "open", "aborted" (open, its
                \* transaction failed), "closed"
    last,       \* the most recent call on the connector and what it did
    pc,         \* where the process is: "lib" (the connector driven directly),
                \* or a position of DatabaseAnalyzer.run()
    exitStatus, \* -1 while the process runs, else its exit status
    driver      \* "psycopg2", or "hostile": a driver whose close() may raise

vars == <<conn, status, last, pc, exitStatus, driver>>

\* connection.closed == 0
IsOpen(st) == st \in {"open", "aborted"}

\* What can go wrong with one statement, whatever the session's state:
\*   "client": the driver raises before the statement reaches the server
\*             (argument interpolation), the session is untouched;
\*   "server": the server rejects the statement (syntax, permission, missing
\*             relation);
\*   "lost":   the session is dead, the driver raises and marks the handle
\*             closed.
Faults == {"none", "client", "server", "lost"}

LostMsg == "server closed the connection unexpectedly"

AbortedMsg == "current transaction is aborted, commands ignored until end of transaction block"

\* cursor.execute() on a handle in state st. psycopg2.connect() is called
\* without autocommit and the file never calls commit() or rollback(): every
\* statement of a handle runs in one transaction, which a statement the server
\* rejects leaves aborted, and in which the server rejects every later one.
\* [exc: "" or str(e) of the exception raised, status: the handle's state after]
DriverExecute(st, fault) ==
    CASE fault = "lost"   -> [exc |-> LostMsg, status |-> "closed"]
      [] fault = "client" -> [exc |-> "not all arguments converted during string formatting",
                              status |-> st]
      [] st = "aborted"   -> [exc |-> AbortedMsg, status |-> "aborted"]
      [] fault = "server" -> [exc |-> "canceling statement due to statement timeout", status |-> "aborted"]
      [] OTHER            -> [exc |-> "", status |-> "open"]

\* connection.close(): "ok", or, with a driver whose close() can raise,
\* an exception that leaves the handle open or closed.
CloseOutcomes == IF driver = "hostile" THEN {"ok", "raise_open", "raise_closed"} ELSE {"ok"}

OpenOutcomes == {"ok", "fail"}

\* The handle psycopg2.connect() creates next.
NewHandle == CHOOSE h \in Handles : status[h] = "unopened" /\ \A g \in 1..(h - 1) : status[g] # "unopened"

\* ---------------------------------------------------- driver result sets

SeqsUpTo(S, n) == UNION {[1..k -> S] : k \in 0..n}

Values == {1, 2}

\* What the cursor holds after a caller's statement ran: cursor.description
\* (None when the statement produced no result set, else one (name, type_code)
\* entry per column) and the rows of fetchall().
NoResultSet == [hasDesc |-> FALSE, description |-> << >>, rows |-> << >>]

\* cursor.description of columns named c (psycopg2: (name, type_code, ...)).
Description(c) == [i \in 1..Len(c) |-> <<c[i], 23>>]

ResultSets(c) ==
    {[hasDesc |-> TRUE, description |-> Description(c), rows |-> r] :
        r \in SeqsUpTo([1..Len(c) -> Values], MaxRows)}

\* The column lists table t may have.
TableColumns == {<<"x">>, <<"x", "y">>}

\* Texts the server parses as a statement; it rejects the others.
WellFormed ==
    {Q_Select1, Q_SelectFromT, Q_PaddedSelect, Q_TabSelect, Q_SelectDup,
     Q_SelectInto, Q_Delete, Q_Drop}

\* What the server can answer to a statement it accepts: the literals' one
\* row (two of them under one alias), any content of table t, or no result set.
ResultsOf(q) ==
    CASE q \in {Q_Select1, Q_PaddedSelect, Q_TabSelect} ->
            {[hasDesc |-> TRUE, description |-> Description(<<"?column?">>),
              rows |-> <<<<1>>>>]}
      [] q = Q_SelectFromT -> UNION {ResultSets(c) : c \in TableColumns}
      [] q = Q_SelectDup   ->
            {[hasDesc |-> TRUE, description |-> Description(<<"x", "x">>),
              rows |-> <<<<1, 2>>>>]}
      [] OTHER             -> {NoResultSet}

\* The faults a statement can meet: a text the server cannot parse never runs.
FaultsOf(q) == IF q \in WellFormed THEN Faults ELSE Faults \ {"none"}

\* Rows of the three catalog statements (DictRow: access by column name).
TableRows == SeqsUpTo({[table_name |-> n] : n \in TableNames}, MaxRows)

ColumnDescs ==
    {[column_name |-> "id", data_type |-> "integer", is_nullable |-> "NO",
      column_default |-> None],
     [column_name |-> "name", data_type |-> "text", is_nullable |-> "YES",
      column_default |-> None]}

ColumnRows == SeqsUpTo(ColumnDescs, MaxRows)

RelDescs ==
    {[constraint_name |-> "orders_customer_id_fkey", source_table |-> "orders",
      source_column |-> "customer_id", target_table |-> "customers",
      target_column |-> "id"]}

RelRows == SeqsUpTo(RelDescs, MaxRows)

\* -------------------------------------------------------------- connector

\* DatabaseConnector.is_connected
is_connected == conn # 0 /\ IsOpen(status[conn])

NoConnResp == [error |-> <<"No active database connection">>]

SelectOnlyResp == [error |-> <<"Only SELECT queries are allowed for security reasons">>]

\* {"error": f"{prefix}{str(e)}"}
ErrResp(prefix, e) == [error |-> <<prefix, e>>]

\* Faulty variant: it opens the new handle without closing the prior one.
connect_NoClose(closeOutcome, openOutcome) ==
    IF openOutcome = "fail"
    THEN [conn |-> conn, status |-> status, ret |-> FALSE, raised |-> FALSE, exc |-> "open"]
    ELSE [conn |-> NewHandle, status |-> [status EXCEPT ![NewHandle] = "open"],
          ret |-> TRUE, raised |-> FALSE, exc |-> ""]

\* Faulty variant: it calls psycopg2.connect() outside the try block.
connect_OpenOutsideTry(closeOutcome, openOutcome) ==
    LET needClose == conn # 0 /\ IsOpen(status[conn])
        st1 == IF needClose /\ closeOutcome \in {"ok", "raise_closed"}
               THEN [status EXCEPT ![conn] = "closed"] ELSE status
    IN  IF needClose /\ closeOutcome # "ok"
        THEN [conn |-> conn, status |-> st1, ret |-> FALSE, raised |-> FALSE, exc |-> "close"]
        ELSE IF openOutcome = "fail"
        THEN [conn |-> conn, status |-> st1, ret |-> FALSE, raised |-> TRUE, exc |-> "open"]
        ELSE [conn |-> NewHandle, status |-> [st1 EXCEPT ![NewHandle] = "open"],
              ret |-> TRUE, raised |-> FALSE, exc |-> ""]

\* DatabaseConnector.connect: what the call leaves and returns.
\* exc: which driver call raised ("close", "open") or "".
connect(closeOutcome, openOutcome) ==
    LET needClose == conn # 0 /\ IsOpen(status[conn])
        st1 == IF needClose /\ closeOutcome \in {"ok", "raise_closed"}
               THEN [status EXCEPT ![conn] = "closed"] ELSE status
    IN  IF needClose /\ closeOutcome # "ok"
        THEN [conn |-> conn, status |-> st1, ret |-> FALSE, raised |-> FALSE, exc |-> "close"]
        ELSE IF openOutcome = "fail"
        THEN [conn |-> conn, status |-> st1, ret |-> FALSE, raised |-> FALSE, exc |-> "open"]
        ELSE [conn |-> NewHandle, status |-> [st1 EXCEPT ![NewHandle] = "open"],
              ret |-> TRUE, raised |-> FALSE, exc |-> ""]

\* Faulty variant: it forgets the handle without closing it.
disconnect_NoClose(c, st, closeOutcome) ==
    [conn |-> 0, status |-> st, raised |-> FALSE]

\* DatabaseConnector.disconnect, from connector state (c, st).
disconnect(c, st, closeOutcome) ==
    IF c # 0 /\ IsOpen(st[c])
    THEN CASE closeOutcome = "ok" ->
                [conn |-> 0, status |-> [st EXCEPT ![c] = "closed"], raised |-> FALSE]
           [] closeOutcome = "raise_closed" ->
                [conn |-> c, status |-> [st EXCEPT ![c] = "closed"], raised |-> TRUE]
           [] OTHER ->
                [conn |-> c, status |-> st, raised |-> TRUE]
    ELSE [conn |-> c, status |-> st, raised |-> FALSE]

\* What an operation did: its response, the handles after it, whether it
\* opened a cursor and called cursor.execute(), whether an exception left it,
\* and str(e) of the exception it caught ("" when none).
Outcome(resp, st, cursor, sent, raised, exc) ==
    [resp |-> resp, status |-> st, cursor |-> cursor, sent |-> sent,
     raised |-> raised, exc |-> exc]

Refused(resp) == Outcome(resp, status, FALSE, FALSE, FALSE, "")

\* The except block of an operation: {"error": error_msg}; the handle is left
\* as the driver left it.
Caught(prefix, d) ==
    Outcome(ErrResp(prefix, d.exc), [status EXCEPT ![conn] = d.status],
            TRUE, TRUE, FALSE, d.exc)

Served(resp, d) ==
    Outcome(resp, [status EXCEPT ![conn] = d.status], TRUE, TRUE, FALSE, "")

\* DatabaseConnector.get_tables
get_tables(schema_name, fault, rows) ==
    IF ~is_connected THEN Refused(NoConnResp)
    ELSE LET d == DriverExecute(status[conn], fault)
             tables == [i \in 1..Len(rows) |-> rows[i].table_name]
         IN  IF d.exc # "" THEN Caught("Error fetching tables: ", d)
             ELSE Served([schema |-> schema_name, tables |-> tables,
                          count |-> Len(tables)], d)

\* DatabaseConnector.get_table_schema
get_table_schema(table_name, schema_name, fault, rows) ==
    IF ~is_connected THEN Refused(NoConnResp)
    ELSE LET d == DriverExecute(status[conn], fault)
             columns == [i \in 1..Len(rows) |-> rows[i]]
         IN  IF d.exc # "" THEN Caught("Error fetching table schema: ", d)
             ELSE Served([schema |-> schema_name, table |-> table_name,
                          columns |-> columns, count |-> Len(columns)], d)

\* DatabaseConnector.get_relationships
get_relationships(schema_name, table_name, fault, rows) ==
    IF ~is_connected THEN Refused(NoConnResp)
    ELSE LET d == DriverExecute(status[conn], fault)
             relationships ==
                 [i \in 1..Len(rows) |->
                     [constraint_name |-> rows[i].constraint_name,
                      source_table |-> rows[i].source_table,
                      source_column |-> rows[i].source_column,
                      target_table |-> rows[i].target_table,
                      target_column |-> rows[i].target_column]]
         IN  IF d.exc # "" THEN Caught("Error fetching relationships: ", d)
             ELSE Served([schema |-> schema_name,
                          table |-> IF TruthyText(table_name) THEN table_name ELSE "all",
                          relationships |-> relationships,
                          count |-> Len(relationships)], d)

Min(a, b) == IF a <= b THEN a ELSE b

\* Faulty variant: it keeps the first value of a repeated key.
DictZip_FirstWins(columns, row) ==
    LET n == Min(Len(columns), Len(row))
    IN  [k \in {columns[i] : i \in 1..n} |->
            row[CHOOSE i \in 1..n : columns[i] = k /\ \A j \in 1..n : columns[j] = k => i <= j]]

\* dict(zip(columns, row)): a later pair replaces an earlier one of the same key.
DictZip(columns, row) ==
    LET n == Min(Len(columns), Len(row))
    IN  [k \in {columns[i] : i \in 1..n} |->
            row[CHOOSE i \in 1..n : columns[i] = k /\ \A j \in 1..n : columns[j] = k => j <= i]]

\* Faulty variant: it tests the statement's verb before the connection.
execute_query_GuardFirst(query, params, fault, res) ==
    IF ~SelectGuard(query) THEN Refused(SelectOnlyResp)
    ELSE IF ~is_connected THEN Refused(NoConnResp)
    ELSE LET d == DriverExecute(status[conn], fault)
             columns == [i \in 1..Len(res.description) |-> res.description[i][1]]
             results == [i \in 1..Len(res.rows) |-> DictZip(columns, res.rows[i])]
         IN  IF d.exc # "" THEN Caught("Error executing query: ", d)
             ELSE IF ~res.hasDesc
             THEN Caught("Error executing query: ",
                         [exc |-> "'NoneType' object is not iterable", status |-> d.status])
             ELSE Served([columns |-> columns, rows |-> results,
                          row_count |-> Len(results)], d)

\* Faulty variant: it shapes the result after the try block.
execute_query_ShapeOutsideTry(query, params, fault, res) ==
    IF ~is_connected THEN Refused(NoConnResp)
    ELSE IF ~SelectGuard(query) THEN Refused(SelectOnlyResp)
    ELSE LET d == DriverExecute(status[conn], fault)
             columns == [i \in 1..Len(res.description) |-> res.description[i][1]]
             results == [i \in 1..Len(res.rows) |-> DictZip(columns, res.rows[i])]
         IN  IF d.exc # "" THEN Caught("Error executing query: ", d)
             ELSE IF ~res.hasDesc
             THEN Outcome([none |-> TRUE], [status EXCEPT ![conn] = d.status],
                          TRUE, TRUE, TRUE, "'NoneType' object is not iterable")
             ELSE Served([columns |-> columns, rows |-> results,
                          row_count |-> Len(results)], d)

\* DatabaseConnector.execute_query. cursor.execute(query, params) and
\* cursor.execute(query) differ only in what the driver interpolates.
execute_query(query, params, fault, res) ==
    IF ~is_connected THEN Refused(NoConnResp)
    ELSE IF ~SelectGuard(query) THEN Refused(SelectOnlyResp)
    ELSE LET d == DriverExecute(status[conn], fault)
             columns == [i \in 1..Len(res.description) |-> res.description[i][1]]
             results == [i \in 1..Len(res.rows) |-> DictZip(columns, res.rows[i])]
         IN  IF d.exc # "" THEN Caught("Error executing query: ", d)
             ELSE IF ~res.hasDesc
             THEN Caught("Error executing query: ",
                         [exc |-> "'NoneType' object is not iterable", status |-> d.status])
             ELSE Served([columns |-> columns, rows |-> results,
                          row_count |-> Len(results)], d)

\* ------------------------------------------------------------ call record

Operations == {"get_tables", "get_table_schema", "get_relationships", "execute_query"}

NoCall ==
    [op |-> "none", args |-> << >>, resp |-> [none |-> TRUE], cursor |-> FALSE,
     sent |-> FALSE, raised |-> FALSE, exc |-> "", valid |-> FALSE,
     raw |-> NoResultSet, afterErr |-> FALSE,
     pre |-> [conn |-> 0, status |-> [h \in Handles |-> "unopened"]]]

\* The record of a call of an operation with outcome o. valid: nothing is
\* wrong with the statement itself (the driver was given no fault to raise, a
\* caller's text passes the SELECT test and yields a result set). raw: what
\* the driver returned when the statement ran. afterErr: the call before it
\* was an operation that caught a driver exception.
Call(op, args, o, valid, raw) ==
    [op |-> op, args |-> args, resp |-> o.resp, cursor |-> o.cursor,
     sent |-> o.sent, raised |-> o.raised, exc |-> o.exc, valid |-> valid,
     raw |-> IF o.sent /\ o.exc = "" THEN raw ELSE NoResultSet,
     afterErr |-> last.op \in Operations /\ last.exc # "",
     pre |-> [conn |-> conn, status |-> status]]

\* ---------------------------------------------------------------- actions

ConnectCall ==
    /\ \E h \in Handles : status[h] = "unopened"
    /\ \E co \in CloseOutcomes, oo \in OpenOutcomes :
       \E r \in {connect(co, oo)} :
             /\ conn' = r.conn
             /\ status' = r.status
             /\ last' = [op |-> "connect", args |-> << >>, resp |-> [ret |-> r.ret],
                         cursor |-> FALSE, sent |-> FALSE, raised |-> r.raised,
                         exc |-> r.exc, valid |-> FALSE, raw |-> NoResultSet,
                         afterErr |-> FALSE,
                         pre |-> [conn |-> conn, status |-> status]]
    /\ UNCHANGED <<pc, exitStatus, driver>>

\* One call of disconnect(): the connector after it and the call's record.
DisconnectEffect(co) ==
    \E r \in {disconnect(conn, status, co)} :
        /\ conn' = r.conn
        /\ status' = r.status
        /\ last' = [op |-> "disconnect", args |-> << >>, resp |-> [none |-> TRUE],
                    cursor |-> FALSE, sent |-> FALSE, raised |-> r.raised,
                    exc |-> "", valid |-> FALSE, raw |-> NoResultSet,
                    afterErr |-> FALSE,
                    pre |-> [conn |-> conn, status |-> status]]

DisconnectCall ==
    /\ \E co \in CloseOutcomes : DisconnectEffect(co)
    /\ UNCHANGED <<pc, exitStatus, driver>>

\* The driver's part in a call is drawn only when the call reaches the driver:
\* a fault when cursor.execute() is called, rows when it returns.
FaultsWhen(reached, F) == IF reached THEN F ELSE {"none"}

Returns(reached, f) == reached /\ DriverExecute(status[conn], f).exc = ""

RowsWhen(returns, S) == IF returns THEN S ELSE {<< >>}

ResultsWhen(returns, q) == IF returns THEN ResultsOf(q) ELSE {NoResultSet}

GetTablesCall ==
    /\ \E s \in SchemaNames, f \in FaultsWhen(is_connected, Faults) :
       \E rows \in RowsWhen(Returns(is_connected, f), TableRows) :
         \E o \in {get_tables(s, f, rows)} :
             /\ status' = o.status
             /\ last' = Call("get_tables", [schema_name |-> s], o, f = "none", NoResultSet)
    /\ UNCHANGED <<conn, pc, exitStatus, driver>>

GetTableSchemaCall ==
    /\ \E t \in TableNames, s \in SchemaNames, f \in FaultsWhen(is_connected, Faults) :
       \E rows \in RowsWhen(Returns(is_connected, f), ColumnRows) :
         \E o \in {get_table_schema(t, s, f, rows)} :
             /\ status' = o.status
             /\ last' = Call("get_table_schema", [table_name |-> t, schema_name |-> s],
                             o, f = "none", NoResultSet)
    /\ UNCHANGED <<conn, pc, exitStatus, driver>>

GetRelationshipsCall ==
    /\ \E s \in SchemaNames, t \in OptTableNames, f \in FaultsWhen(is_connected, Faults) :
       \E rows \in RowsWhen(Returns(is_connected, f), RelRows) :
         \E o \in {get_relationships(s, t, f, rows)} :
             /\ status' = o.status
             /\ last' = Call("get_relationships", [schema_name |-> s, table_name |-> t],
                             o, f = "none", NoResultSet)
    /\ UNCHANGED <<conn, pc, exitStatus, driver>>

ExecuteQueryCall ==
    /\ \E q \in Queries, p \in ParamChoices :
       \E f \in FaultsWhen(is_connected /\ SelectGuard(q), FaultsOf(q)) :
       \E res \in ResultsWhen(Returns(is_connected /\ SelectGuard(q), f), q) :
       \E o \in {execute_query(q, p, f, res)} :
         LET returns == Returns(is_connected /\ SelectGuard(q), f)
         IN  /\ status' = o.status
             /\ last' = Call("execute_query",
                             [query |-> q, params |-> p, bound |-> TruthyList(p)], o,
                             f = "none" /\ SelectGuard(q) /\ (returns => res.hasDesc),
                             res)
    /\ UNCHANGED <<conn, pc, exitStatus, driver>>

\* The connector driven directly by a caller.
Connect == pc = "lib" /\ ConnectCall

Disconnect == pc = "lib" /\ DisconnectCall

GetTables == pc = "lib" /\ GetTablesCall

GetTableSchema == pc = "lib" /\ GetTableSchemaCall

GetRelationships == pc = "lib" /\ GetRelationshipsCall

ExecuteQuery == pc = "lib" /\ ExecuteQueryCall

\* Faulty variant: it connects before it starts the transport.
RunStart_Connects ==
    /\ pc = "constructed"
    /\ pc' = "serving"
    /\ conn' = 1
    /\ status' = [status EXCEPT ![1] = "open"]
    /\ UNCHANGED <<last, exitStatus, driver>>

\* DatabaseAnalyzer.run up to self.mcp.run(transport="stdio"), which then
\* dispatches tool invocations one at a time.
RunStart ==
    /\ pc = "constructed"
    /\ pc' = "serving"
    /\ UNCHANGED <<conn, status, last, exitStatus, driver>>

\* The registered tools: each forwards to the connector's operation.
ToolGetTables == pc = "serving" /\ GetTablesCall

ToolGetTableSchema == pc = "serving" /\ GetTableSchemaCall

ToolGetRelationships == pc = "serving" /\ GetRelationshipsCall

ToolExecuteQuery == pc = "serving" /\ ExecuteQueryCall

\* self.mcp.run() returns.
TransportReturns ==
    /\ pc = "serving"
    /\ pc' = "finally_return"
    /\ UNCHANGED <<conn, status, last, exitStatus, driver>>

\* self.mcp.run() raises: the except block calls sys.exit(1), whose SystemExit
\* is pending while the finally block runs.
TransportRaises ==
    /\ pc = "serving"
    /\ pc' = "finally_exit1"
    /\ UNCHANGED <<conn, status, last, exitStatus, driver>>

\* Faulty variant: run() has no finally block: the process ends as the try or the
\* except block left it.
RunFinally_Missing ==
    /\ pc \in {"finally_return", "finally_exit1"}
    /\ pc' = "exited"
    /\ exitStatus' = IF pc = "finally_exit1" THEN 1 ELSE 0
    /\ UNCHANGED <<conn, status, last, driver>>

\* The finally block of run(): self.db.disconnect(), then the process ends with
\* the pending status (an exception leaving disconnect() ends it with 1).
RunFinally ==
    /\ pc \in {"finally_return", "finally_exit1"}
    /\ \E co \in CloseOutcomes : DisconnectEffect(co)
    /\ pc' = "exited"
    /\ exitStatus' = IF pc = "finally_exit1" \/ last'.raised THEN 1 ELSE 0
    /\ UNCHANGED driver

Init ==
    /\ conn = 0
    /\ status = [h \in Handles |-> "unopened"]
    /\ last = NoCall
    /\ pc = "lib"
    /\ exitStatus = -1
    /\ driver = "psycopg2"

\* DatabaseConnector() as the caller's own object.
Next ==
    \/ Connect
    \/ Disconnect
    \/ GetTables
    \/ GetTableSchema
    \/ GetRelationships
    \/ ExecuteQuery

Spec == Init /\ [][Next]_vars

\* The same calls on a driver whose close() may raise as well as return.
InitAnyDriver ==
    /\ conn = 0
    /\ status = [h \in Handles |-> "unopened"]
    /\ last = NoCall
    /\ pc = "lib"
    /\ exitStatus = -1
    /\ driver = "hostile"

SpecAnyDriver == InitAnyDriver /\ [][Next]_vars

\* The process of the __main__ block: DatabaseAnalyzer() constructed (its
\* connector's conn is None), then run().
InitServer ==
    /\ conn = 0
    /\ status = [h \in Handles |-> "unopened"]
    /\ last = NoCall
    /\ pc = "constructed"
    /\ exitStatus = -1
    /\ driver = "psycopg2"

NextServer ==
    \/ RunStart
    \/ ToolGetTables
    \/ ToolGetTableSchema
    \/ ToolGetRelationships
    \/ ToolExecuteQuery
    \/ TransportReturns
    \/ TransportRaises
    \/ RunFinally

SpecServer == InitServer /\ [][NextServer]_vars

\* run() of an analyzer whose owner called analyzer.db.connect() first.
HostConnect == pc = "constructed" /\ ConnectCall

NextHosted == NextServer \/ HostConnect

SpecHosted == InitServer /\ [][NextHosted]_vars

\* ----------------------------------------------------------------- claims

IsError(r) == DOMAIN r = {"error"}

IsPayload(r) == "error" \notin DOMAIN r

WasConnected == last.pre.conn # 0 /\ IsOpen(last.pre.status[last.pre.conn])

OpenHandles == {h \in Handles : IsOpen(status[h])}

\* The text, trimmed of surrounding whitespace and lower-cased, begins with "select".
BeginsWithSelect(q) ==
    LET t == [i \in 1..Len(Strip(q)) |-> LowerChar(Strip(q)[i])]
    IN  Len(t) >= 6 /\ SubSeq(t, 1, 6) = SelectWord

\* C1: an operation invoked while is_connected() is false returns exactly
\* {"error": "No active database connection"}, opens no cursor and sends no
\* statement, whatever its arguments (execute_query with a non-SELECT text too).
C1_DisconnectedIsRefused ==
    (last.op \in Operations /\ ~WasConnected) =>
        /\ last.resp = NoConnResp
        /\ ~last.cursor
        /\ ~last.sent
        /\ status = last.pre.status

C1_Witness ==
    /\ last.op = "execute_query"
    /\ last.args.query = Q_Delete
    /\ ~WasConnected
    /\ last.pre.conn # 0
    /\ last.resp = NoConnResp

\* C2: execute_query sends a statement only if the text, trimmed and
\* lower-cased, begins with "select"; any other text ("", "DELETE FROM x",
\* "  Drop table x", ...) returns an error object, no cursor opened, nothing sent.
C2_OnlySelectIsSent ==
    last.op = "execute_query" =>
        /\ (last.sent \/ last.cursor) => BeginsWithSelect(last.args.query)
        /\ ~BeginsWithSelect(last.args.query) =>
              IsError(last.resp) /\ ~last.cursor /\ ~last.sent
        /\ last.args.query \in {Q_Empty, Q_Delete, Q_Drop, Q_Selec, Q_XSelect} =>
              IsError(last.resp) /\ ~last.sent

C2_Witness ==
    /\ last.op = "execute_query"
    /\ WasConnected
    /\ last.args.query = Q_Drop
    /\ last.resp = SelectOnlyResp
    /\ ~last.cursor
    /\ ~last.sent

\* C3: after any sequence of connect() and disconnect() calls, at most one
\* handle is open, every handle that was opened and is not the current one is
\* closed, and a connect() that succeeds has closed the prior handle and leaves
\* exactly one open handle, the current one.
C3_OneOpenHandle ==
    /\ Cardinality(OpenHandles) <= 1
    /\ \A h \in Handles : (status[h] # "unopened" /\ h # conn) => status[h] = "closed"
    /\ (last.op = "connect" /\ last.resp.ret) =>
          /\ OpenHandles = {conn}
          /\ last.pre.conn # 0 => status[last.pre.conn] = "closed"

C3_Witness ==
    /\ last.op = "connect"
    /\ last.resp.ret
    /\ WasConnected
    /\ OpenHandles = {conn}

\* C4, for a driver exception other than the loss of the session: the
\* operation returns an error object, the handle stays the current, open one,
\* and a following valid operation on it returns its payload, not an error.
C4_FailedStatementLeavesServiceUsable ==
    /\ (last.op \in Operations /\ last.exc \notin {"", LostMsg}) =>
          IsError(last.resp) /\ is_connected /\ conn = last.pre.conn
    /\ (last.op \in Operations /\ last.afterErr /\ last.valid /\ WasConnected) =>
          IsPayload(last.resp)

\* C5: connect() returns True when the new handle is opened and False, raising
\* nothing, when the driver fails, closing the prior handle or opening the new one.
C5_ConnectReturnsBool ==
    last.op = "connect" =>
        /\ ~last.raised
        /\ last.resp.ret <=> last.exc = ""
        /\ last.resp.ret =>
              /\ conn # 0
              /\ status[conn] = "open"
              /\ last.pre.status[conn] = "unopened"
        /\ ~last.resp.ret => conn = last.pre.conn

C5_Witness ==
    /\ last.op = "connect"
    /\ last.exc = "close"
    /\ ~last.resp.ret
    /\ ~last.raised

\* C6: disconnect() closes the handle if it is open and otherwise changes
\* nothing; is_connected() is false after it; from every reachable state a
\* second disconnect() leaves what the first produced.
C6_DisconnectIdempotent ==
    /\ last.op = "disconnect" =>
          /\ ~is_connected
          /\ ~last.raised
          /\ IF WasConnected
             THEN conn = 0 /\ status = [last.pre.status EXCEPT ![last.pre.conn] = "closed"]
             ELSE conn = last.pre.conn /\ status = last.pre.status
    /\ LET once == disconnect(conn, status, "ok")
           twice == disconnect(once.conn, once.status, "ok")
       IN  /\ twice = once
           /\ ~(once.conn # 0 /\ IsOpen(once.status[once.conn]))
           /\ \A h \in Handles : ~IsOpen(once.status[h]) \/ h # conn

C6_Witness ==
    /\ last.op = "disconnect"
    /\ WasConnected
    /\ conn = 0
    /\ status[last.pre.conn] = "closed"

PayloadKeys(op) ==
    CASE op = "get_tables"        -> {"schema", "tables", "count"}
      [] op = "get_table_schema"  -> {"schema", "table", "columns", "count"}
      [] op = "get_relationships" -> {"schema", "table", "relationships", "count"}
      [] OTHER                    -> {"columns", "rows", "row_count"}

\* C7: every invocation of an operation returns a response and raises nothing;
\* the response is an error object whose only key is "error" or a payload
\* without that key; a refusal or a caught driver exception gives the former.
C7_ResponseIsEitherOr ==
    last.op \in Operations =>
        /\ ~last.raised
        /\ IsError(last.resp) \/ DOMAIN last.resp = PayloadKeys(last.op)
        /\ (last.exc # "" \/ ~last.sent) => IsError(last.resp)

C7_Witness ==
    /\ last.op = "execute_query"
    /\ last.sent
    /\ last.exc = "'NoneType' object is not iterable"
    /\ IsError(last.resp)
    /\ ~last.raised

\* C8: the process of run() exits only after disconnect() has run, with no
\* handle open, on the transport's normal return and, with status 1 pending,
\* on its exception.
C8_DisconnectBeforeExit ==
    /\ exitStatus # -1 <=> pc = "exited"
    /\ pc = "exited" =>
          /\ last.op = "disconnect"
          /\ OpenHandles = {}
          /\ exitStatus \in {0, 1}

C8_Witness ==
    /\ pc = "exited"
    /\ exitStatus = 1
    /\ last.op = "disconnect"
    /\ WasConnected
    /\ OpenHandles = {}

Names(columns) == {columns[i] : i \in 1..Len(columns)}

RawColumns == [i \in 1..Len(last.raw.description) |-> last.raw.description[i][1]]

SuccessfulQuery == last.op = "execute_query" /\ IsPayload(last.resp)

\* C9 as stated: columns, rows and row_count follow the driver's result, and
\* each row mapping holds the driver's value of every position i under
\* columns[i], so has as many entries as there are columns.
C9_RowHoldsEveryPosition ==
    SuccessfulQuery =>
        /\ last.resp.columns = RawColumns
        /\ last.resp.row_count = Len(last.raw.rows)
        /\ Len(last.resp.rows) = Len(last.raw.rows)
        /\ \A k \in 1..Len(last.raw.rows) :
              /\ \A i \in 1..Len(RawColumns) :
                    last.resp.rows[k][RawColumns[i]] = last.raw.rows[k][i]
              /\ Cardinality(DOMAIN last.resp.rows[k]) = Len(RawColumns)

\* C9 amended: columns, rows and row_count follow the driver's result; each
\* row mapping has one entry per distinct column name, holding the driver's
\* value of the last position with that name; it holds every position's value
\* when no two result columns share a name.
C9_RowHoldsLastOfEachName ==
    SuccessfulQuery =>
        /\ last.resp.columns = RawColumns
        /\ last.resp.row_count = Len(last.raw.rows)
        /\ Len(last.resp.rows) = Len(last.raw.rows)
        /\ \A k \in 1..Len(last.raw.rows) :
              /\ DOMAIN last.resp.rows[k] = Names(RawColumns)
              /\ \A i \in 1..Len(RawColumns) :
                    (\A j \in (i + 1)..Len(RawColumns) : RawColumns[j] # RawColumns[i]) =>
                        last.resp.rows[k][RawColumns[i]] = last.raw.rows[k][i]

C9_Witness ==
    /\ SuccessfulQuery
    /\ RawColumns = <<"x", "x">>
    /\ last.raw.rows = <<<<1, 2>>>>
    /\ last.resp.rows = <<[x |-> 2]>>
    /\ last.resp.row_count = 1

\* C10: in the process started by DatabaseAnalyzer().run() nothing calls
\* connect(): conn stays None, and every tool invocation returns
\* {"error": "No active database connection"} without a cursor or a statement.
C10_ServerNeverConnects ==
    /\ conn = 0
    /\ last.op # "connect"
    /\ last.op \in Operations =>
          last.resp = NoConnResp /\ ~last.cursor /\ ~last.sent

C10_Witness ==
    /\ pc = "serving"
    /\ last.op = "execute_query"
    /\ last.args.query = Q_Select1
    /\ last.resp = NoConnResp

====
